---- MODULE Spec2Model ----
(***************************************************************************)
(* Model of the two metadata consolidation scripts of moneywise-backend:   *)
(*   create-sqlx-data.py  (function create_sqlx_data, then exit)           *)
(*   fix-sqlx-data.py     (function main)                                  *)
(* Both scan .sqlx/query-*.json, sort the matched paths, read every file,  *)
(* derive a hash from the file name and write sqlx-data.json.              *)
(*                                                                         *)
(* Strings that the scripts take apart (paths, file names, hashes) are     *)
(* sequences of one-character strings, so that str.replace, basename,      *)
(* Path.stem, fnmatch and the ordering used by sorted() are computed       *)
(* character by character.  JSON values the scripts only pass through are  *)
(* tagged records.                                                         *)
(***************************************************************************)
EXTENDS Naturals, Integers, Sequences, FiniteSets, TLC

VARIABLES
    script,        \* which of the two scripts runs: "create" or "fix"
    dir,           \* the .sqlx directory: file name -> file content
    out,           \* sqlx-data.json on disk
    prior,         \* history: sqlx-data.json as it was when the run started
    pc,            \* position of the run
    query_files,   \* result of glob.glob, in the order the scan returned
    sorted_files,  \* the list sorted(query_files) the for loop iterates
    idx,           \* position of the for loop in sorted_files
    sqlx_data,     \* the dict being built
    included,      \* history: query_file of every executed append, in order
    warned,        \* paths for which the except branch printed its message
    outcome,       \* what the run reported
    exit_code,     \* process exit status (-1 while running)
    runs,          \* 1 for the first run, 2 for the run right after it
    firstOut,      \* history: sqlx-data.json as the first run left it
    firstSorted    \* history: whether the first run's scan came back sorted

vars == << script, dir, out, prior, pc, query_files, sorted_files, idx,
           sqlx_data, included, warned, outcome, exit_code, runs,
           firstOut, firstSorted >>

----------------------------------------------------------------------------
(* Bounds and input domains *)

\* at most this many files of the directory match query-*.json
MaxFiles == 2

Q == << "q", "u", "e", "r", "y", "-" >>
J == << ".", "j", "s", "o", "n" >>
SqlxDir == << ".", "s", "q", "l", "x", "/" >>

\* the middle tokens of the matching file names: plain ones, one that
\* contains "query-" and one that contains ".json"
Tokens == { << "a" >>,
            << "a", "b" >>,
            << "a" >> \o Q \o << "b" >>,
            << "a" >> \o J \o << "b" >> }

MatchingNames == { Q \o t \o J : t \in Tokens }

\* "query.json": always in the directory, never matched by query-*.json
OtherNames == { << "q", "u", "e", "r", "y" >> \o J }

----------------------------------------------------------------------------
(* JSON values and file contents *)

Absent == [t |-> "absent", v |-> ""]
SqlText == [t |-> "str", v |-> "SELECT 1"]
Number == [t |-> "num", v |-> "5"]
Describe == [t |-> "obj", v |-> "columns"]

Garbage == [kind |-> "garbage", query |-> Absent, describe |-> Absent]
ArrayDoc == [kind |-> "array", query |-> Absent, describe |-> Absent]
NoQuery == [kind |-> "object", query |-> Absent, describe |-> Describe]
NoDescribe == [kind |-> "object", query |-> SqlText, describe |-> Absent]
ValidDoc == [kind |-> "object", query |-> SqlText, describe |-> Describe]
NumberDoc == [kind |-> "object", query |-> Number, describe |-> Describe]

FileContents == { Garbage, ArrayDoc, NoQuery, NoDescribe, ValidDoc, NumberDoc }

\* sqlx-data.json: missing, left over from an earlier build, or cut short
NoFile == [exists |-> FALSE, db |-> "", queries |-> << >>]
Stale == [exists |-> TRUE, db |-> "PostgreSQL",
          queries |-> << [hash |-> << "o", "l", "d" >>,
                          query |-> SqlText, describe |-> Describe] >>]
Truncated == [exists |-> TRUE, db |-> "", queries |-> << >>]

Unset == [db |-> "", queries |-> << >>]

----------------------------------------------------------------------------
(* String functions *)

\* ord() of the characters that occur in the paths
Code(c) ==
    CASE c = "-" -> 45  [] c = "." -> 46  [] c = "/" -> 47
      [] c = "a" -> 97  [] c = "b" -> 98  [] c = "e" -> 101
      [] c = "j" -> 106 [] c = "l" -> 108 [] c = "n" -> 110
      [] c = "o" -> 111 [] c = "q" -> 113 [] c = "r" -> 114
      [] c = "s" -> 115 [] c = "u" -> 117 [] c = "x" -> 120
      [] c = "y" -> 121

\* s[i:].startswith(p)
MatchAt(s, i, p) ==
    /\ i + Len(p) - 1 <= Len(s)
    /\ SubSeq(s, i, i + Len(p) - 1) = p

RECURSIVE ReplaceFrom(_, _, _)
ReplaceFrom(s, i, old) ==
    IF i > Len(s) THEN << >>
    ELSE IF MatchAt(s, i, old) THEN ReplaceFrom(s, i + Len(old), old)
    ELSE << s[i] >> \o ReplaceFrom(s, i + 1, old)

\* s.replace(old, ''): every non-overlapping occurrence, left to right
Replace(s, old) == ReplaceFrom(s, 1, old)

\* positions of character c in s
Positions(s, c) == { i \in 1..Len(s) : s[i] = c }

Last(S) == CHOOSE i \in S : \A j \in S : j <= i

\* os.path.basename(path): what follows the last "/"
Basename(path) ==
    IF Positions(path, "/") = {} THEN path
    ELSE SubSeq(path, Last(Positions(path, "/")) + 1, Len(path))

\* Path(path).stem: the final component without its last suffix
Stem(path) ==
    LET name == Basename(path)
        dots == Positions(name, ".")
    IN IF dots = {} THEN name
       ELSE IF 1 < Last(dots) /\ Last(dots) < Len(name)
            THEN SubSeq(name, 1, Last(dots) - 1)
            ELSE name

\* str < str: first differing character decides, a proper prefix is smaller
StrLess(a, b) ==
    \E i \in 1..(Len(b)) :
        /\ \A k \in 1..(i - 1) : k <= Len(a) /\ a[k] = b[k]
        /\ \/ i = Len(a) + 1
           \/ i <= Len(a) /\ Code(a[i]) < Code(b[i])

\* fnmatch of a file name against query-*.json
Matches(name) ==
    /\ Len(name) >= Len(Q) + Len(J)
    /\ SubSeq(name, 1, Len(Q)) = Q
    /\ SubSeq(name, Len(name) - Len(J) + 1, Len(name)) = J

----------------------------------------------------------------------------
(* The scan and the sort *)

\* the paths glob.glob(".sqlx/query-*.json") finds in directory d
Glob(d) == { SqlxDir \o n : n \in { m \in DOMAIN d : Matches(m) } }

\* every order in which the scan may hand back the set S of paths
Orders(S) ==
    { f \in [1..Cardinality(S) -> S] :
        \A i, j \in 1..Cardinality(S) : i # j => f[i] # f[j] }

RemoveAt(s, i) == SubSeq(s, 1, i - 1) \o SubSeq(s, i + 1, Len(s))

\* variant of Sorted: the list left in scan order
Unsorted(s) == s

\* sorted(s) for a list of distinct strings: smallest first
RECURSIVE Sorted(_)
Sorted(s) ==
    IF s = << >> THEN << >>
    ELSE LET m == CHOOSE i \in 1..Len(s) :
                    \A j \in 1..Len(s) : j # i => StrLess(s[i], s[j])
         IN << s[m] >> \o Sorted(RemoveAt(s, m))

IsSorted(s) == \A i \in 1..(Len(s) - 1) : StrLess(s[i], s[i + 1])

\* variant of NoFiles: the emptiness test dropped
NeverNoFiles(files) == FALSE

\* "if not query_files"
NoFiles(files) == Len(files) = 0

----------------------------------------------------------------------------
(* The body of the for loop *)

\* create-sqlx-data.py: basename, then both replaces
HashCreate(path) == Replace(Replace(Basename(path), Q), J)

\* fix-sqlx-data.py: stem, then one replace
HashFix(path) == Replace(Stem(path), Q)

HashOf(s, path) == IF s = "create" THEN HashCreate(path) ELSE HashFix(path)

\* open + json.load raise on content that is not JSON
JsonLoadFails(doc) == doc.kind = "garbage"

\* variant of LookupFails: lookups that never raise (dict.get)
GetDefault(doc, key) == FALSE

\* query_data[key] raises: TypeError on a non-dict, KeyError on a missing key
LookupFails(doc, key) == doc.kind # "object" \/ doc[key].t = "absent"

\* query_data['query'][:50] raises on a value that cannot be sliced
SliceFails(value) == value.t \notin { "str", "array" }

\* One pass through the try block for the file at path holding doc.
\*   queries:  sqlx_data["queries"] after the pass
\*   appended: the append was executed
\*   raised:   an exception reached the except branch
TryBody(s, path, doc, queries) ==
    IF JsonLoadFails(doc)
    THEN [queries |-> queries, appended |-> FALSE, raised |-> TRUE]
    ELSE IF LookupFails(doc, "query") \/ LookupFails(doc, "describe")
    THEN [queries |-> queries, appended |-> FALSE, raised |-> TRUE]
    ELSE [queries |-> Append(queries, [hash |-> HashOf(s, path),
                                       query |-> doc.query,
                                       describe |-> doc.describe]),
          appended |-> TRUE,
          raised |-> s = "create" /\ SliceFails(doc.query)]

\* variant of NextIdx: the loop left at the first exception
BreakOnError(i, raised, n) == IF raised THEN n + 1 ELSE i + 1

\* the loop goes on with the next file whether or not the body raised
NextIdx(i, raised, n) == i + 1

\* the structure both scripts start from
InitialData == [db |-> "PostgreSQL", queries |-> << >>]

\* variant of Written: new entries added to the old ones
Merged(old, data) ==
    [exists |-> TRUE, db |-> data.db, queries |-> old.queries \o data.queries]

\* sqlx-data.json after open(..., 'w') and json.dump(sqlx_data, f, indent=2):
\* the old content is gone, the file holds the document just built
Written(old, data) ==
    [exists |-> TRUE, db |-> data.db, queries |-> data.queries]

\* Exit status of the process.  create-sqlx-data.py: exit(0 if success else
\* 1) on the boolean create_sqlx_data returned.  fix-sqlx-data.py: main()
\* returns None and the interpreter exits 0, unless an exception escaped.
ExitStatus(s, result) ==
    IF s = "create"
    THEN IF result = "True" THEN 0 ELSE 1
    ELSE IF result = "exception" THEN 1 ELSE 0

----------------------------------------------------------------------------
(* Initial states *)

Directories ==
    UNION { { d \in [S -> FileContents] :
                \A n \in S : n \in OtherNames => d[n] = ValidDoc } :
            S \in { OtherNames \cup T : T \in { U \in SUBSET MatchingNames :
                                                 Cardinality(U) <= MaxFiles } } }

Init ==
    /\ script \in { "create", "fix" }
    /\ dir \in Directories
    /\ out \in { NoFile, Stale }
    /\ prior = out
    /\ pc = "start"
    /\ query_files = << >>
    /\ sorted_files = << >>
    /\ idx = 1
    /\ sqlx_data = Unset
    /\ included = << >>
    /\ warned = {}
    /\ outcome = "none"
    /\ exit_code = -1
    /\ runs = 1
    /\ firstOut = NoFile
    /\ firstSorted = FALSE

----------------------------------------------------------------------------
(* Actions *)

\* glob.glob: the matched paths, in whatever order the scan yields them.
\* fix-sqlx-data.py has built its structure before the scan.
Scan ==
    /\ pc = "start"
    /\ query_files' \in Orders(Glob(dir))
    /\ sqlx_data' = IF script = "fix" THEN InitialData ELSE sqlx_data
    /\ pc' = "scanned"
    /\ UNCHANGED << script, dir, out, prior, sorted_files, idx, included,
                    warned, outcome, exit_code, runs, firstOut, firstSorted >>

\* nothing matched: message, then return False (create) or return (fix)
ReturnNoFiles ==
    /\ pc = "scanned"
    /\ NoFiles(query_files)
    /\ outcome' = "NoInputFiles"
    /\ exit_code' = ExitStatus(script, IF script = "create" THEN "False" ELSE "None")
    /\ pc' = "exited"
    /\ UNCHANGED << script, dir, out, prior, query_files, sorted_files, idx,
                    sqlx_data, included, warned, runs, firstOut, firstSorted >>

\* entry of the for loop: sorted(query_files) is evaluated once.
\* create-sqlx-data.py builds its structure here.
EnterLoop ==
    /\ pc = "scanned"
    /\ ~NoFiles(query_files)
    /\ sorted_files' = Sorted(query_files)
    /\ idx' = 1
    /\ sqlx_data' = IF script = "create" THEN InitialData ELSE sqlx_data
    /\ pc' = "loop"
    /\ UNCHANGED << script, dir, out, prior, query_files, included, warned,
                    outcome, exit_code, runs, firstOut, firstSorted >>

\* one iteration: the try block and, if it raised, the except branch
ProcessFile ==
    /\ pc = "loop"
    /\ idx <= Len(sorted_files)
    /\ LET path == sorted_files[idx]
           r == TryBody(script, path, dir[Basename(path)], sqlx_data.queries)
       IN /\ sqlx_data' = [sqlx_data EXCEPT !.queries = r.queries]
          /\ included' = IF r.appended THEN Append(included, path) ELSE included
          /\ warned' = IF r.raised THEN warned \cup { path } ELSE warned
          /\ idx' = NextIdx(idx, r.raised, Len(sorted_files))
    /\ UNCHANGED << script, dir, out, prior, pc, query_files, sorted_files,
                    outcome, exit_code, runs, firstOut, firstSorted >>

\* after the loop: open('sqlx-data.json', 'w') and json.dump succeed
WriteOutput ==
    /\ pc = "loop"
    /\ idx > Len(sorted_files)
    /\ out' = Written(out, sqlx_data)
    /\ outcome' = "Written"
    /\ exit_code' = ExitStatus(script, IF script = "create" THEN "True" ELSE "None")
    /\ pc' = "exited"
    /\ UNCHANGED << script, dir, prior, query_files, sorted_files, idx,
                    sqlx_data, included, warned, runs, firstOut, firstSorted >>

\* after the loop: the write raises.  open() failed and the file is as it
\* was, or the file was opened (so truncated) and the dump did not finish.
\* create-sqlx-data.py catches it and returns False; in fix-sqlx-data.py
\* the exception escapes main.
WriteFails ==
    /\ pc = "loop"
    /\ idx > Len(sorted_files)
    /\ out' \in { out, Truncated }
    /\ outcome' = "OutputWriteFailure"
    /\ exit_code' = ExitStatus(script, IF script = "create" THEN "False" ELSE "exception")
    /\ pc' = "exited"
    /\ UNCHANGED << script, dir, prior, query_files, sorted_files, idx,
                    sqlx_data, included, warned, runs, firstOut, firstSorted >>

\* the same script is run again on the same directory, right after a run
\* that wrote its output; sqlx-data.json is what that run left, or has been
\* removed or replaced meanwhile
RunAgain ==
    /\ pc = "exited"
    /\ runs = 1
    /\ outcome = "Written"
    /\ firstOut' = out
    /\ firstSorted' = IsSorted(query_files)
    /\ out' \in { out, NoFile, Stale }
    /\ prior' = out'
    /\ runs' = runs + 1
    /\ pc' = "start"
    /\ query_files' = << >>
    /\ sorted_files' = << >>
    /\ idx' = 1
    /\ sqlx_data' = Unset
    /\ included' = << >>
    /\ warned' = {}
    /\ outcome' = "none"
    /\ exit_code' = -1
    /\ UNCHANGED << script, dir >>

Next ==
    \/ Scan
    \/ ReturnNoFiles
    \/ EnterLoop
    \/ ProcessFile
    \/ WriteOutput
    \/ WriteFails
    \/ RunAgain

Spec == Init /\ [][Next]_vars

----------------------------------------------------------------------------
(* Vocabulary of the properties *)

\* the names in the directory that query-*.json matches
Matched == { n \in DOMAIN dir : Matches(n) }

PathOf(n) == SqlxDir \o n

\* content that parses as a JSON object holding both query and describe
WellFormed(doc) ==
    doc.kind = "object" /\ doc.query # Absent /\ doc.describe # Absent

WellFormedNames == { n \in Matched : WellFormed(dir[n]) }
MalformedNames == Matched \ WellFormedNames

\* the file name without its leading "query-" and its trailing ".json"
PrefixSuffixRemoved(name) == SubSeq(name, Len(Q) + 1, Len(name) - Len(J))

Range(s) == { s[i] : i \in DOMAIN s }

LoopOver ==
    \/ pc = "loop" /\ idx > Len(sorted_files)
    \/ pc = "exited" /\ outcome \in { "Written", "OutputWriteFailure" }

WroteOutput == pc = "exited" /\ outcome = "Written"

----------------------------------------------------------------------------
(* Properties *)

\* C1 (Completeness): once the output is written, its queries hold exactly
\* one entry for every matched well-formed file, carrying the file name
\* without prefix and suffix as hash and the file's query and describe, and
\* hold no entry that comes from anything else.
C1_Completeness ==
    WroteOutput =>
        /\ Len(out.queries) = Len(included)
        /\ \A n \in WellFormedNames :
              /\ Cardinality({ i \in DOMAIN included : included[i] = PathOf(n) }) = 1
              /\ \A i \in DOMAIN included :
                    included[i] = PathOf(n) =>
                        /\ out.queries[i].hash = PrefixSuffixRemoved(n)
                        /\ out.queries[i].query = dir[n].query
                        /\ out.queries[i].describe = dir[n].describe
        /\ \A i \in DOMAIN included :
              \E n \in WellFormedNames : included[i] = PathOf(n)

\* C2 (Ordering): the entries are in ascending order of the names of the
\* files they were built from, whatever order the scan returned, and the
\* written queries are these entries in this order.
C2_Ordering ==
    /\ Len(included) = Len(sqlx_data.queries)
    /\ \A i \in DOMAIN included :
          sqlx_data.queries[i].hash = HashOf(script, included[i])
    /\ \A i, j \in DOMAIN included :
          i < j => StrLess(Basename(included[i]), Basename(included[j]))
    /\ WroteOutput => out.queries = sqlx_data.queries

C2_Witness ==
    /\ WroteOutput
    /\ Len(out.queries) >= 2
    /\ ~IsSorted(query_files)

\* C3 (Exit status): a run that consolidated at least one query and wrote
\* the output exits 0; a run that found no matching file, or could not
\* write the output, exits non-zero.
C3_ExitStatus ==
    pc = "exited" =>
        /\ (outcome = "Written" /\ Len(out.queries) >= 1) => exit_code = 0
        /\ Matched = {} => exit_code # 0
        /\ outcome = "OutputWriteFailure" => exit_code # 0

\* C4 (Partial-failure tolerance): with N >= 2 matched files of which one
\* is malformed, the loop still goes through every well-formed file and
\* ends with N-1 entries; unless the write itself fails, the output holds
\* these N-1 entries and the run exits 0.
C4_PartialFailure ==
    (Cardinality(Matched) >= 2 /\ Cardinality(MalformedNames) = 1) =>
        /\ LoopOver =>
              /\ Len(sqlx_data.queries) = Cardinality(Matched) - 1
              /\ Range(included) = { PathOf(n) : n \in WellFormedNames }
        /\ (pc = "exited" /\ outcome # "OutputWriteFailure") =>
              /\ outcome = "Written"
              /\ out.exists
              /\ out.queries = sqlx_data.queries
              /\ Len(out.queries) = Cardinality(Matched) - 1
              /\ exit_code = 0

C4_Witness ==
    /\ WroteOutput
    /\ Cardinality(Matched) >= 2
    /\ Cardinality(MalformedNames) = 1
    /\ \E b \in MalformedNames : \E g \in WellFormedNames : StrLess(b, g)
    /\ exit_code = 0

\* C5 (Empty-set behaviour): when no file matches, the run ends with the
\* no-input-files outcome and sqlx-data.json is what it was before the run.
C5_EmptySet ==
    (pc = "exited" /\ Matched = {}) =>
        /\ outcome = "NoInputFiles"
        /\ out = prior

C5_Witness ==
    /\ pc = "exited"
    /\ Matched = {}
    /\ DOMAIN dir # {}
    /\ prior = Stale

\* C6 (Identifier derivation): the hash of every entry is the name of its
\* file with exactly the leading "query-" and the trailing ".json" removed.
C6_IdentifierDerivation ==
    \A i \in DOMAIN included :
        i <= Len(sqlx_data.queries) =>
            sqlx_data.queries[i].hash = PrefixSuffixRemoved(Basename(included[i]))

\* C7 (All-malformed behaviour): when files match but all are malformed,
\* the run is not a no-input run, and unless the write itself fails it
\* writes db "PostgreSQL" with empty queries and exits 0.
C7_AllMalformed ==
    (pc = "exited" /\ Matched # {} /\ WellFormedNames = {}) =>
        /\ outcome \in { "Written", "OutputWriteFailure" }
        /\ outcome = "Written" =>
              /\ out = [exists |-> TRUE, db |-> "PostgreSQL", queries |-> << >>]
              /\ exit_code = 0

C7_Witness ==
    /\ WroteOutput
    /\ Cardinality(Matched) >= 2
    /\ WellFormedNames = {}
    /\ warned = Range(query_files)

\* C8 (Determinism and full regeneration): the second run on the same
\* files writes what the first run wrote, whatever order either scan
\* returned and whatever sqlx-data.json held before either run.
C8_Determinism ==
    (WroteOutput /\ runs = 2) => out = firstOut

C8_Witness ==
    /\ WroteOutput
    /\ runs = 2
    /\ Len(out.queries) >= 2
    /\ prior = Stale
    /\ firstSorted # IsSorted(query_files)

\* C9 (Skip-or-include exclusivity, create-sqlx-data.py): every file the
\* loop has gone through is either included and not warned about, or
\* warned about and not included.
C9_Exclusivity ==
    (script = "create" /\ pc \in { "loop", "exited" }) =>
        \A k \in 1..(idx - 1) :
            k <= Len(sorted_files) =>
                LET p == sorted_files[k]
                IN (p \in Range(included)) # (p \in warned)

\* C10 (Identifier uniqueness): the hashes of the written entries are
\* pairwise distinct.
C10_UniqueIdentifiers ==
    WroteOutput =>
        \A i, j \in DOMAIN out.queries :
            i # j => out.queries[i].hash # out.queries[j].hash

====
